---- MODULE Spec2Model ----
(***************************************************************************)
(* Model of the IoT cooling backend: the telemetry table, the two          *)
(* singleton settings tables (ACSettings, ActuatorState), the request      *)
(* handlers of main.py and the fire-and-forget mirror pushes of            *)
(* firebase_client.py.                                                     *)
(*                                                                         *)
(* Temperatures are floats in the source; they are modelled in tenths of   *)
(* a degree (22.0 -> 220, 23.5 -> 235), which keeps every comparison the   *)
(* handlers make.                                                          *)
(***************************************************************************)
EXTENDS Integers, Sequences, FiniteSets, TLC

VARIABLES
    acTable,    \* rows of table ACSettings, in rowid order
    actTable,   \* rows of table ActuatorState, in rowid order
    telemetry,  \* rows of table Telemetry, in rowid order
    tasks,      \* background tasks added by handlers and not yet run
    lastPush,   \* outcome of the last mirror push that ran
    response,   \* response of the last request handled one at a time
    now,        \* the server clock
    reqs        \* the concurrent requests in flight (SpecConc)

vars == <<acTable, actTable, telemetry, tasks, lastPush, response, now, reqs>>

store == <<acTable, actTable, telemetry>>

----------------------------------------------------------------------------
(* Bounds of the model *)

MaxTime == 1
MaxTelemetry == 1
MaxIngest == 2
NumRequests == 2

(* Program constant: get_history's LIMIT *)
HistoryLimit == 50

----------------------------------------------------------------------------
(* Inputs the requests are drawn from *)

TargetTemps == {220, 240}
ManualModes == {"cool", "auto"}
ThresholdTemps == {250, 260}
ModeRequests == {"ai", "turbo"}
AcValues == {0, 1, 2}
FanValues == {0, 1}
ActThresholds == {235}
Instructions == {<<>>, <<"keep cool">>}
Sources == {<<>>, <<"assistant">>}
DeviceIds == {"dev-a", "dev-b"}
TsValues == {1, 2, 3}
PushOutcomes == {"ok", "error", "timeout"}

----------------------------------------------------------------------------
(* The two readings of the clock.  ACSettings is stamped with             *)
(* datetime.utcnow(), ActuatorState with datetime.now(): the local time,   *)
(* which is the UTC time shifted by the zone's offset.                     *)

\* the offset of the server's time zone, in ticks of the clock
TzOffset == 7

\* datetime.utcnow()
UtcNow == now

\* datetime.now()
LocalNow == now + TzOffset

----------------------------------------------------------------------------
(* database.py: the table models *)

\* faulty variant: a column default that differs from the literal get_ac_settings returns
ACSettingsOtherDefault(t) ==
    [id |-> 0, mode |-> "manual", is_on |-> FALSE, target_temp |-> 240,
     threshold_temp |-> 250, automation_enabled |-> FALSE, last_updated |-> t]

\* ACSettings(): a new object with the column defaults, not yet inserted
ACSettings(t) ==
    [id |-> 0, mode |-> "manual", is_on |-> FALSE, target_temp |-> 220,
     threshold_temp |-> 250, automation_enabled |-> FALSE, last_updated |-> t]

\* ActuatorState(): a new object with the column defaults, not yet inserted
ActuatorState(t) ==
    [id |-> 0, mode_request |-> "manual", ac |-> 0, fan |-> 0,
     temp_threshold |-> 250, end_user_ai_instruction |-> "",
     source |-> "web_client", last_updated |-> t]

\* Telemetry(...): a new row, created_at stamped by the default factory
Telemetry(data, t) ==
    [id |-> 0, device_id |-> data.device_id, unit |-> data.unit, ts |-> data.ts,
     temp_inside |-> data.temperatures.inside.value,
     temp_outside |-> data.temperatures.outside.value,
     created_at |-> t]

----------------------------------------------------------------------------
(* main.py: the request bodies *)

ManualControlInput(is_on, target_temp, mode) ==
    [is_on |-> is_on, target_temp |-> target_temp, mode |-> mode]

AutomationInput(enabled, threshold_temp) ==
    [enabled |-> enabled, threshold_temp |-> threshold_temp]

\* instr and src are <<>> when the body omits the field, <<v>> otherwise
ActuatorStateInput(mode_request, ac, fan, temp_threshold, instr, src) ==
    [mode_request |-> mode_request, ac |-> ac, fan |-> fan,
     temp_threshold |-> temp_threshold,
     end_user_ai_instruction |-> IF instr = <<>> THEN "" ELSE instr[1],
     source |-> IF src = <<>> THEN "web_client" ELSE src[1]]

TelemetryInput(device_id, ts) ==
    [device_id |-> device_id, interval_s |-> 5, unit |-> "C", ts |-> ts,
     temperatures |-> [inside |-> [sensor_id |-> "in", value |-> 245],
                       outside |-> [sensor_id |-> "out", value |-> 301]]]

ManualInputs ==
    {ManualControlInput(o, t, m) : o \in BOOLEAN, t \in TargetTemps, m \in ManualModes}

AutomationInputs ==
    {AutomationInput(e, t) : e \in BOOLEAN, t \in ThresholdTemps}

ActuatorInputs ==
    {ActuatorStateInput(m, a, f, t, i, s) :
        m \in ModeRequests, a \in AcValues, f \in FanValues,
        t \in ActThresholds, i \in Instructions, s \in Sources}

TelemetryInputs ==
    {TelemetryInput(d, t) : d \in DeviceIds, t \in TsValues}

----------------------------------------------------------------------------
(* The session: select ... limit(1) .first(), commit, refresh *)

\* session.exec(select(T).limit(1)).first(): <<>> for None, else the first row
First(table) == IF table = <<>> THEN <<>> ELSE <<table[1]>>

\* The object the handler updates: the row found, or a new one added to the session
GetOrCreate(loaded, fresh) == IF loaded = <<>> THEN fresh ELSE loaded[1]

\* faulty variant: every commit INSERTs
CommitAlwaysInsert(table, loaded, obj) ==
    Append(table, [obj EXCEPT !.id = Len(table) + 1])

\* faulty variant: the UPDATE is skipped when the row is no longer the one loaded
CommitIfFresh(table, loaded, obj) ==
    IF loaded = <<>>
    THEN Append(table, [obj EXCEPT !.id = Len(table) + 1])
    ELSE [i \in 1..Len(table) |->
            IF table[i].id = obj.id /\ table[i] = loaded[1] THEN obj ELSE table[i]]

\* session.commit(): a new object is INSERTed with the next rowid; a loaded one
\* is UPDATEd, the statement setting the columns whose value differs from the
\* value loaded and leaving the others as they are in the table
Commit(table, loaded, obj) ==
    IF loaded = <<>>
    THEN Append(table, [obj EXCEPT !.id = Len(table) + 1])
    ELSE [i \in 1..Len(table) |->
            IF table[i].id = obj.id
            THEN [f \in DOMAIN obj |->
                    IF obj[f] # loaded[1][f] THEN obj[f] ELSE table[i][f]]
            ELSE table[i]]

\* the primary key the committed object has
CommittedId(table, loaded, obj) ==
    IF loaded = <<>> THEN Len(table) + 1 ELSE obj.id

\* session.refresh(obj): the row read back by primary key
Refresh(table, id) == table[CHOOSE i \in 1..Len(table) : table[i].id = id]

----------------------------------------------------------------------------
(* The assignments each upsert makes to the object *)

\* faulty variant: the stored mode is taken from the body's mode field
ManualUpdateInputMode(obj, data, t) ==
    [obj EXCEPT !.mode = data.mode, !.is_on = data.is_on,
                !.target_temp = data.target_temp, !.last_updated = t]

\* faulty variant: a manual update switches automation off
ManualUpdateClearsAutomation(obj, data, t) ==
    [obj EXCEPT !.mode = "manual", !.is_on = data.is_on,
                !.target_temp = data.target_temp, !.automation_enabled = FALSE,
                !.last_updated = t]

ManualUpdate(obj, data, t) ==
    [obj EXCEPT !.mode = "manual", !.is_on = data.is_on,
                !.target_temp = data.target_temp, !.last_updated = t]

\* faulty variant: the automation update leaves the stamp as it was
AutomationUpdateNoStamp(obj, data, t) ==
    [obj EXCEPT !.automation_enabled = data.enabled,
                !.threshold_temp = data.threshold_temp,
                !.mode = IF data.enabled THEN "auto" ELSE @]

\* faulty variant: disabling automation puts the mode back to manual
AutomationUpdateResetMode(obj, data, t) ==
    [obj EXCEPT !.automation_enabled = data.enabled,
                !.threshold_temp = data.threshold_temp,
                !.mode = IF data.enabled THEN "auto" ELSE "manual",
                !.last_updated = t]

AutomationUpdate(obj, data, t) ==
    [obj EXCEPT !.automation_enabled = data.enabled,
                !.threshold_temp = data.threshold_temp,
                !.mode = IF data.enabled THEN "auto" ELSE @,
                !.last_updated = t]

\* faulty variant: an empty instruction and the default source leave the stored value
ActuatorUpdateKeepOmitted(obj, data, t) ==
    [obj EXCEPT !.mode_request = data.mode_request, !.ac = data.ac,
                !.fan = data.fan, !.temp_threshold = data.temp_threshold,
                !.end_user_ai_instruction =
                    IF data.end_user_ai_instruction = "" THEN @
                    ELSE data.end_user_ai_instruction,
                !.source = IF data.source = "web_client" THEN @ ELSE data.source,
                !.last_updated = t]

ActuatorUpdate(obj, data, t) ==
    [obj EXCEPT !.mode_request = data.mode_request, !.ac = data.ac,
                !.fan = data.fan, !.temp_threshold = data.temp_threshold,
                !.end_user_ai_instruction = data.end_user_ai_instruction,
                !.source = data.source, !.last_updated = t]

----------------------------------------------------------------------------
(* The response bodies *)

ManualResponse(row) ==
    [status |-> "ok",
     settings |-> [mode |-> row.mode, is_on |-> row.is_on,
                   target_temp |-> row.target_temp]]

AutomationResponse(row) ==
    [status |-> "ok",
     settings |-> [automation_enabled |-> row.automation_enabled,
                   threshold_temp |-> row.threshold_temp, mode |-> row.mode]]

ActuatorFields(row) ==
    [mode_request |-> row.mode_request, ac |-> row.ac, fan |-> row.fan,
     temp_threshold |-> row.temp_threshold,
     end_user_ai_instruction |-> row.end_user_ai_instruction,
     source |-> row.source]

ActuatorResponse(row) == [status |-> "ok", api_state |-> ActuatorFields(row)]

\* get_ac_settings: the literal defaults when no row exists, else the row's fields
AcSettingsBody(table) ==
    IF First(table) = <<>>
    THEN [mode |-> "manual", is_on |-> FALSE, target_temp |-> 220,
          threshold_temp |-> 250, automation_enabled |-> FALSE]
    ELSE LET r == First(table)[1] IN
         [mode |-> r.mode, is_on |-> r.is_on, target_temp |-> r.target_temp,
          threshold_temp |-> r.threshold_temp,
          automation_enabled |-> r.automation_enabled]

\* get_actuator_state: the literal defaults when no row exists, else the row's fields
ActuatorStateBody(table) ==
    IF First(table) = <<>>
    THEN [mode_request |-> "manual", ac |-> 0, fan |-> 0, temp_threshold |-> 250,
          end_user_ai_instruction |-> "", source |-> "web_client"]
    ELSE ActuatorFields(First(table)[1])

\* a store write failure surfaces as a server error
ServerError == [status |-> "error"]

----------------------------------------------------------------------------
(* Background tasks *)

PushCommandTask(command_type, details) ==
    [fn |-> "push_command", command_type |-> command_type, details |-> details]

PushTelemetryTask(data) ==
    [fn |-> "push_telemetry",
     details |-> [device_id |-> data.device_id, unit |-> data.unit, ts |-> data.ts,
                  temp_inside |-> data.temperatures.inside.value,
                  temp_outside |-> data.temperatures.outside.value]]

\* background_tasks.add_task(...)
AddTask(queue, task) == Append(queue, task)

RemoveAt(queue, i) ==
    [k \in 1..(Len(queue) - 1) |-> IF k < i THEN queue[k] ELSE queue[k + 1]]

----------------------------------------------------------------------------
(* get_history: ORDER BY ts DESC LIMIT 50 *)

Reverse(s) == [i \in 1..Len(s) |-> s[Len(s) + 1 - i]]

\* the largest ts of a non-empty table
MaxTs(rows) ==
    CHOOSE m \in {rows[i].ts : i \in 1..Len(rows)} :
        \A i \in 1..Len(rows) : rows[i].ts <= m

\* ORDER BY ts DESC: the rows of the largest ts, then the rest in the same
\* way.  SQL leaves the order of rows of equal ts open; tie picks rowid order
\* or its reverse.
RECURSIVE OrderByTsDesc(_, _)
OrderByTsDesc(rows, tie) ==
    IF rows = <<>> THEN <<>>
    ELSE LET m == MaxTs(rows)
             top == SelectSeq(rows, LAMBDA r : r.ts = m)
             rest == SelectSeq(rows, LAMBDA r : r.ts # m)
         IN  (IF tie = "rowid" THEN top ELSE Reverse(top))
                \o OrderByTsDesc(rest, tie)

Limit(rows, n) == SubSeq(rows, 1, IF Len(rows) < n THEN Len(rows) ELSE n)

\* faulty variant: the newest rows by rowid, the order of arrival
HistoryQueryByArrival(table, tie) ==
    Limit([i \in 1..Len(table) |-> table[Len(table) + 1 - i]], HistoryLimit)

HistoryQuery(table, tie) == Limit(OrderByTsDesc(table, tie), HistoryLimit)

TieOrders == {"rowid", "reverse"}

----------------------------------------------------------------------------
(* Initial state: empty tables, nothing queued, no request in flight *)

IdleRequest ==
    [pc |-> "idle", op |-> "none", data |-> <<>>, loaded |-> <<>>, obj |-> <<>>,
     resp |-> <<>>]

Init ==
    /\ acTable = <<>>
    /\ actTable = <<>>
    /\ telemetry = <<>>
    /\ tasks = <<>>
    /\ lastPush = "none"
    /\ response = [op |-> "none"]
    /\ now = 0
    /\ reqs = [p \in 1..NumRequests |-> IdleRequest]

----------------------------------------------------------------------------
(* The handlers, each run to completion.  Requests are served one at a     *)
(* time: a request that writes is taken up when the background task of the *)
(* request before it has run.                                              *)

set_manual_control(data, commitOk) ==
    LET loaded == First(acTable)
        obj == ManualUpdate(GetOrCreate(loaded, ACSettings(UtcNow)), data, UtcNow)
        table == Commit(acTable, loaded, obj)
        row == Refresh(table, CommittedId(acTable, loaded, obj))
    IN  /\ tasks = <<>>
        /\ IF commitOk
           THEN /\ acTable' = table
                /\ tasks' = AddTask(tasks, PushCommandTask("manual_update", data))
                /\ response' = [op |-> "set_manual_control", body |-> ManualResponse(row)]
           ELSE /\ response' = [op |-> "set_manual_control", body |-> ServerError]
                /\ UNCHANGED <<acTable, tasks>>
        /\ UNCHANGED <<actTable, telemetry, lastPush, now, reqs>>

set_automation(data, commitOk) ==
    LET loaded == First(acTable)
        obj == AutomationUpdate(GetOrCreate(loaded, ACSettings(UtcNow)), data, UtcNow)
        table == Commit(acTable, loaded, obj)
        row == Refresh(table, CommittedId(acTable, loaded, obj))
    IN  /\ tasks = <<>>
        /\ IF commitOk
           THEN /\ acTable' = table
                /\ tasks' = AddTask(tasks, PushCommandTask("automation_update", data))
                /\ response' = [op |-> "set_automation", body |-> AutomationResponse(row)]
           ELSE /\ response' = [op |-> "set_automation", body |-> ServerError]
                /\ UNCHANGED <<acTable, tasks>>
        /\ UNCHANGED <<actTable, telemetry, lastPush, now, reqs>>

get_ac_settings ==
    /\ response' = [op |-> "get_ac_settings", body |-> AcSettingsBody(acTable)]
    /\ UNCHANGED <<acTable, actTable, telemetry, tasks, lastPush, now, reqs>>

get_actuator_state ==
    /\ response' = [op |-> "get_actuator_state", body |-> ActuatorStateBody(actTable)]
    /\ UNCHANGED <<acTable, actTable, telemetry, tasks, lastPush, now, reqs>>

set_actuator_state(data, commitOk) ==
    LET loaded == First(actTable)
        obj == ActuatorUpdate(GetOrCreate(loaded, ActuatorState(UtcNow)), data, LocalNow)
        table == Commit(actTable, loaded, obj)
        row == Refresh(table, CommittedId(actTable, loaded, obj))
    IN  /\ tasks = <<>>
        /\ IF commitOk
           THEN /\ actTable' = table
                /\ tasks' = AddTask(tasks, PushCommandTask("actuator_update", data))
                /\ response' = [op |-> "set_actuator_state", body |-> ActuatorResponse(row)]
           ELSE /\ response' = [op |-> "set_actuator_state", body |-> ServerError]
                /\ UNCHANGED <<actTable, tasks>>
        /\ UNCHANGED <<acTable, telemetry, lastPush, now, reqs>>

save_telemetry(data, commitOk) ==
    LET obj == Telemetry(data, UtcNow)
        table == Commit(telemetry, <<>>, obj)
        row == Refresh(table, CommittedId(telemetry, <<>>, obj))
    IN  /\ tasks = <<>>
        /\ IF commitOk
           THEN /\ telemetry' = table
                /\ tasks' = AddTask(tasks, PushTelemetryTask(data))
                /\ response' = [op |-> "save_telemetry",
                                body |-> [status |-> "ok", id |-> row.id]]
           ELSE /\ response' = [op |-> "save_telemetry", body |-> ServerError]
                /\ UNCHANGED <<telemetry, tasks>>
        /\ UNCHANGED <<acTable, actTable, lastPush, now, reqs>>

get_history(tie) ==
    /\ response' = [op |-> "get_history", body |-> HistoryQuery(telemetry, tie)]
    /\ UNCHANGED <<acTable, actTable, telemetry, tasks, lastPush, now, reqs>>

----------------------------------------------------------------------------
(* firebase_client.py: push_telemetry / push_command run as a background   *)
(* task, once; an exception of the HTTP call (an error, a timeout) is      *)
(* caught and printed.                                                     *)

\* faulty variant: a push that failed stays queued, to be tried again
RunTaskRetry(i, outcome) ==
    /\ i \in 1..Len(tasks)
    /\ tasks' = IF outcome = "ok" THEN RemoveAt(tasks, i) ELSE tasks
    /\ lastPush' = outcome
    /\ UNCHANGED <<acTable, actTable, telemetry, response, now, reqs>>

RunTask(i, outcome) ==
    /\ i \in 1..Len(tasks)
    /\ tasks' = RemoveAt(tasks, i)
    /\ lastPush' = outcome
    /\ UNCHANGED <<acTable, actTable, telemetry, response, now, reqs>>

\* the clock advances
Tick ==
    /\ now < MaxTime
    /\ now' = now + 1
    /\ UNCHANGED <<acTable, actTable, telemetry, tasks, lastPush, response, reqs>>

----------------------------------------------------------------------------
(* Spec: every endpoint, requests one at a time, a few inputs each *)

CoreManualInputs ==
    {ManualControlInput(TRUE, 240, "cool"), ManualControlInput(FALSE, 220, "auto")}

CoreAutomationInputs == {AutomationInput(TRUE, 260), AutomationInput(FALSE, 250)}

CoreActuatorInputs ==
    {ActuatorStateInput("ai", 1, 0, 235, <<"keep cool">>, <<"assistant">>),
     ActuatorStateInput("turbo", 2, 1, 235, <<>>, <<>>)}

CoreTelemetryInputs == {TelemetryInput("dev-a", 1), TelemetryInput("dev-b", 3)}

Next ==
    \/ \E d \in CoreManualInputs, ok \in BOOLEAN : set_manual_control(d, ok)
    \/ \E d \in CoreAutomationInputs, ok \in BOOLEAN : set_automation(d, ok)
    \/ get_ac_settings
    \/ \E d \in CoreActuatorInputs, ok \in BOOLEAN : set_actuator_state(d, ok)
    \/ get_actuator_state
    \/ \E d \in CoreTelemetryInputs, ok \in BOOLEAN :
          Len(telemetry) < MaxTelemetry /\ save_telemetry(d, ok)
    \/ \E tie \in TieOrders : get_history(tie)
    \/ \E i \in 1..Len(tasks), o \in PushOutcomes : RunTask(i, o)
    \/ Tick

Spec == Init /\ [][Next]_vars

----------------------------------------------------------------------------
(* SpecAC: the AC settings endpoints over every input, with the clock *)

NextAC ==
    \/ \E d \in ManualInputs, ok \in BOOLEAN : set_manual_control(d, ok)
    \/ \E d \in AutomationInputs, ok \in BOOLEAN : set_automation(d, ok)
    \/ get_ac_settings
    \/ \E i \in 1..Len(tasks), o \in PushOutcomes : RunTask(i, o)
    \/ Tick

SpecAC == Init /\ [][NextAC]_vars

----------------------------------------------------------------------------
(* SpecActuator: the actuator endpoints over every input, with the clock *)

NextActuator ==
    \/ \E d \in ActuatorInputs, ok \in BOOLEAN : set_actuator_state(d, ok)
    \/ get_actuator_state
    \/ \E i \in 1..Len(tasks), o \in PushOutcomes : RunTask(i, o)
    \/ Tick

SpecActuator == Init /\ [][NextActuator]_vars

----------------------------------------------------------------------------
(* SpecHist: telemetry ingest and history over tables around the LIMIT *)

\* the sample timestamps of a table already ingested: rising, falling, all equal
PrefillTs(shape, i, n) ==
    IF shape = "rising" THEN i % 4
    ELSE IF shape = "falling" THEN (n - i) % 4
    ELSE 2

Prefill(shape, n) ==
    [i \in 1..n |->
        [Telemetry(TelemetryInput(IF i % 2 = 0 THEN "dev-a" ELSE "dev-b",
                                  PrefillTs(shape, i, n)), 0)
            EXCEPT !.id = i]]

PrefillShapes == {"rising", "falling", "flat"}

InitHist ==
    /\ acTable = <<>>
    /\ actTable = <<>>
    /\ telemetry \in {<<>>} \cup {Prefill(s, HistoryLimit - 1) : s \in PrefillShapes}
    /\ tasks = <<>>
    /\ lastPush = "none"
    /\ response = [op |-> "none"]
    /\ now = 0
    /\ reqs = [p \in 1..NumRequests |-> IdleRequest]

\* how many rows the table started with
PrefillLen == IF Len(telemetry) >= HistoryLimit - 1 THEN HistoryLimit - 1 ELSE 0

NextHist ==
    \/ \E d \in TelemetryInputs, ok \in BOOLEAN :
          Len(telemetry) < PrefillLen + MaxIngest /\ save_telemetry(d, ok)
    \/ \E tie \in TieOrders : get_history(tie)
    \/ \E i \in 1..Len(tasks), o \in PushOutcomes : RunTask(i, o)

SpecHist == InitHist /\ [][NextHist]_vars

----------------------------------------------------------------------------
(* SpecConc: upserts of concurrent requests.  The handlers are plain       *)
(* functions, run on worker threads, each with a session of its own; the   *)
(* SELECT, the commit and the refresh of a request are separate            *)
(* statements, and statements of other requests run between them.          *)

ConcOps == {"manual", "automation", "actuator"}

\* two manual bodies that each differ from a row of defaults in one column
ConcManualInputs ==
    {ManualControlInput(TRUE, 220, "cool"), ManualControlInput(FALSE, 240, "cool")}

ConcInputs(op) ==
    IF op = "manual" THEN ConcManualInputs
    ELSE IF op = "automation" THEN CoreAutomationInputs
    ELSE CoreActuatorInputs

OnAc(op) == op \in {"manual", "automation"}

ApplyUpdate(op, obj, data, t) ==
    IF op = "manual" THEN ManualUpdate(obj, data, t)
    ELSE IF op = "automation" THEN AutomationUpdate(obj, data, t)
    ELSE ActuatorUpdate(obj, data, t)

ResponseOf(op, row) ==
    IF op = "manual" THEN ManualResponse(row)
    ELSE IF op = "automation" THEN AutomationResponse(row)
    ELSE ActuatorResponse(row)

CommandType(op) ==
    IF op = "manual" THEN "manual_update"
    ELSE IF op = "automation" THEN "automation_update"
    ELSE "actuator_update"

\* the SELECT, and the assignments to the object found or created
Lookup(p, op, data) ==
    LET table == IF OnAc(op) THEN acTable ELSE actTable
        fresh == IF OnAc(op) THEN ACSettings(UtcNow) ELSE ActuatorState(UtcNow)
        loaded == First(table)
    IN  /\ reqs[p].pc = "idle"
        /\ reqs' = [reqs EXCEPT ![p] =
                [pc |-> "looked", op |-> op, data |-> data, loaded |-> loaded,
                 obj |-> ApplyUpdate(op, GetOrCreate(loaded, fresh), data,
                                    IF OnAc(op) THEN UtcNow ELSE LocalNow),
                 resp |-> <<>>]]
        /\ UNCHANGED <<acTable, actTable, telemetry, tasks, lastPush, response, now>>

\* session.commit()
CommitStep(p) ==
    LET r == reqs[p]
        table == IF OnAc(r.op) THEN acTable ELSE actTable
        after == Commit(table, r.loaded, r.obj)
    IN  /\ r.pc = "looked"
        /\ IF OnAc(r.op)
           THEN acTable' = after /\ UNCHANGED actTable
           ELSE actTable' = after /\ UNCHANGED acTable
        /\ reqs' = [reqs EXCEPT ![p].pc = "committed",
                                ![p].obj.id = CommittedId(table, r.loaded, r.obj)]
        /\ UNCHANGED <<telemetry, tasks, lastPush, response, now>>

\* session.refresh(obj), add_task, return
Respond(p) ==
    LET r == reqs[p]
        table == IF OnAc(r.op) THEN acTable ELSE actTable
    IN  /\ r.pc = "committed"
        /\ reqs' = [reqs EXCEPT ![p].pc = "done",
                                ![p].resp = ResponseOf(r.op, Refresh(table, r.obj.id))]
        /\ tasks' = AddTask(tasks, PushCommandTask(CommandType(r.op), r.data))
        /\ UNCHANGED <<acTable, actTable, telemetry, lastPush, response, now>>

\* tables a running server can hold when the requests arrive
InitConc ==
    /\ acTable \in {<<>>, Commit(<<>>, <<>>, ACSettings(0))}
    /\ actTable \in {<<>>, Commit(<<>>, <<>>, ActuatorState(0))}
    /\ telemetry = <<>>
    /\ tasks = <<>>
    /\ lastPush = "none"
    /\ response = [op |-> "none"]
    /\ now = 0
    /\ reqs = [p \in 1..NumRequests |-> IdleRequest]

NextConc ==
    \/ \E p \in 1..NumRequests, op \in ConcOps :
          \E d \in ConcInputs(op) : Lookup(p, op, d)
    \/ \E p \in 1..NumRequests : CommitStep(p)
    \/ \E p \in 1..NumRequests : Respond(p)
    \/ \E i \in 1..Len(tasks), o \in PushOutcomes : RunTask(i, o)

SpecConc == InitConc /\ [][NextConc]_vars


----------------------------------------------------------------------------
(* Properties *)

Rows(table) == {table[i] : i \in 1..Len(table)}

\* C1 (Spec): with upserts run one at a time from empty tables, ACSettings
\* and ActuatorState each hold at most one row; the row inserted by the first
\* upsert (rowid 1) is the one every later upsert updates.
C1_SingletonRows ==
    /\ Len(acTable) <= 1
    /\ Len(actTable) <= 1
    /\ \A r \in Rows(acTable) \cup Rows(actTable) : r.id = 1

\* both rows exist, and the settings row has been written by a manual update
\* and by an automation update after its insert
C1_Witness ==
    /\ Len(acTable) = 1 /\ Len(actTable) = 1
    /\ acTable[1].target_temp = 240 /\ acTable[1].threshold_temp = 260
    /\ acTable[1].last_updated = 1
    /\ actTable[1].last_updated = 1 + TzOffset

\* C3 (SpecAC): after every successful set_manual_control the stored mode is
\* "manual", whatever the body's mode field and the row before, and the
\* response reports mode "manual" with is_on and target_temp of the body.
C3_ManualForcesManual ==
    [][\A d \in ManualInputs :
          set_manual_control(d, TRUE) =>
             /\ Len(acTable') = 1
             /\ acTable'[1].mode = "manual"
             /\ response'.body =
                  [status |-> "ok",
                   settings |-> [mode |-> "manual", is_on |-> d.is_on,
                                 target_temp |-> d.target_temp]]]_vars

\* a manual update answered on a row that automation had switched to auto
C3_Witness ==
    /\ response.op = "set_manual_control"
    /\ response.body.status = "ok"
    /\ acTable # <<>>
    /\ acTable[1].automation_enabled
    /\ acTable[1].mode = "manual"
    /\ tasks # <<>> /\ tasks[1].details.mode = "auto"

\* the mode stored before a call: the column default when no row exists
StoredMode == IF acTable = <<>> THEN ACSettings(now).mode ELSE acTable[1].mode

\* C4 (SpecAC): after set_automation with enabled the stored mode is "auto";
\* with enabled false it is the mode stored before the call ("manual" when no
\* row existed); automation_enabled and threshold_temp equal the body.
C4_AutomationMode ==
    [][\A d \in AutomationInputs :
          set_automation(d, TRUE) =>
             /\ Len(acTable') = 1
             /\ acTable'[1].mode = (IF d.enabled THEN "auto" ELSE StoredMode)
             /\ acTable'[1].automation_enabled = d.enabled
             /\ acTable'[1].threshold_temp = d.threshold_temp]_vars

\* automation switched off on a row whose mode was auto: the mode stays auto
C4_Witness ==
    /\ response.op = "set_automation"
    /\ response.body.status = "ok"
    /\ acTable # <<>>
    /\ ~acTable[1].automation_enabled
    /\ acTable[1].mode = "auto"

\* the row an AC upsert works on: the stored row, or the defaults
StoredAc == GetOrCreate(First(acTable), ACSettings(now))

\* C5 (SpecAC): set_automation leaves is_on and target_temp as they were,
\* set_manual_control leaves threshold_temp and automation_enabled as they
\* were; manual{on, 24.0} answered and then automation{enabled, 26.0} reads
\* back as auto, on, 24.0, 26.0, enabled.
C5_PartialUpdates ==
    [][/\ \A d \in AutomationInputs :
             set_automation(d, TRUE) =>
                /\ acTable'[1].is_on = StoredAc.is_on
                /\ acTable'[1].target_temp = StoredAc.target_temp
       /\ \A d \in ManualInputs :
             set_manual_control(d, TRUE) =>
                /\ acTable'[1].threshold_temp = StoredAc.threshold_temp
                /\ acTable'[1].automation_enabled = StoredAc.automation_enabled
       /\ ( /\ response = [op |-> "set_manual_control",
                           body |-> ManualResponse([mode |-> "manual", is_on |-> TRUE,
                                                    target_temp |-> 240])]
            /\ set_automation(AutomationInput(TRUE, 260), TRUE) )
          => AcSettingsBody(acTable') =
                [mode |-> "auto", is_on |-> TRUE, target_temp |-> 240,
                 threshold_temp |-> 260, automation_enabled |-> TRUE]
      ]_vars

\* a manual update on a row with automation enabled: mode manual, automation
\* still enabled, the threshold kept
C5_Witness ==
    /\ response.op = "set_manual_control"
    /\ response.body.status = "ok"
    /\ acTable # <<>>
    /\ acTable[1].mode = "manual"
    /\ acTable[1].automation_enabled
    /\ acTable[1].threshold_temp = 260
    /\ acTable[1].is_on /\ acTable[1].target_temp = 240

\* C6 (Spec): with no ACSettings row get_ac_settings answers manual, off,
\* 22.0, 25.0, automation off; with no ActuatorState row get_actuator_state
\* answers manual, 0, 0, 25.0, "", web_client; each is what the same read
\* answers for a row just inserted with the column defaults; a read leaves
\* both tables as they are.
C6_ReadDefaults ==
    [][/\ get_ac_settings =>
            /\ acTable' = acTable /\ actTable' = actTable
            /\ acTable = <<>> =>
                  /\ response'.body =
                        [mode |-> "manual", is_on |-> FALSE, target_temp |-> 220,
                         threshold_temp |-> 250, automation_enabled |-> FALSE]
                  /\ response'.body =
                        AcSettingsBody(Commit(<<>>, <<>>, ACSettings(now)))
       /\ get_actuator_state =>
            /\ acTable' = acTable /\ actTable' = actTable
            /\ actTable = <<>> =>
                  /\ response'.body =
                        [mode_request |-> "manual", ac |-> 0, fan |-> 0,
                         temp_threshold |-> 250, end_user_ai_instruction |-> "",
                         source |-> "web_client"]
                  /\ response'.body =
                        ActuatorStateBody(Commit(<<>>, <<>>, ActuatorState(now)))
      ]_vars

\* the actuator state read before any write, answered with the defaults
C6_Witness ==
    /\ response.op = "get_actuator_state"
    /\ response.body.source = "web_client"
    /\ acTable = <<>> /\ actTable = <<>>

\* the six stored fields after one more set_actuator_state(data) on table
AfterActuatorUpsert(table, data) ==
    LET loaded == First(table)
        obj == ActuatorUpdate(GetOrCreate(loaded, ActuatorState(UtcNow)), data, LocalNow)
    IN  ActuatorFields(Commit(table, loaded, obj)[1])

\* C7 (SpecActuator): after a successful set_actuator_state the six stored
\* fields equal the body's, whatever was stored; an omitted instruction or
\* source is stored as "" and "web_client"; get_actuator_state then answers
\* those six fields; the same call once more stores the same fields.
C7_FullReplace ==
    [][/\ \A d \in ActuatorInputs :
             set_actuator_state(d, TRUE) =>
                /\ Len(actTable') = 1
                /\ ActuatorFields(actTable'[1]) = d
                /\ ActuatorStateBody(actTable') = d
                /\ response'.body = [status |-> "ok", api_state |-> d]
                /\ AfterActuatorUpsert(actTable', d) = ActuatorFields(actTable'[1])
       /\ \A m \in ModeRequests, a \in AcValues, f \in FanValues, t \in ActThresholds :
             set_actuator_state(ActuatorStateInput(m, a, f, t, <<>>, <<>>), TRUE) =>
                /\ actTable'[1].end_user_ai_instruction = ""
                /\ actTable'[1].source = "web_client"
      ]_vars

\* a write that omits instruction and source, answered after an earlier
\* write's push has run: the stored row holds the defaults for both
C7_Witness ==
    /\ response.op = "set_actuator_state"
    /\ response.body.status = "ok"
    /\ lastPush # "none" /\ tasks # <<>>
    /\ actTable # <<>>
    /\ actTable[1].end_user_ai_instruction = ""
    /\ actTable[1].source = "web_client"
    /\ actTable[1].ac = 2

Persisted(task, resp, ac, act, tel) ==
    IF task.fn = "push_telemetry"
    THEN \E r \in Rows(tel) :
            /\ r.id = resp.body.id
            /\ r.device_id = task.details.device_id /\ r.ts = task.details.ts
    ELSE IF task.command_type = "manual_update"
    THEN /\ ac # <<>>
         /\ ac[1].is_on = task.details.is_on
         /\ ac[1].target_temp = task.details.target_temp
    ELSE IF task.command_type = "automation_update"
    THEN /\ ac # <<>>
         /\ ac[1].automation_enabled = task.details.enabled
         /\ ac[1].threshold_temp = task.details.threshold_temp
    ELSE /\ act # <<>>
         /\ ActuatorFields(act[1]) = task.details

\* C9 (Spec): a push is queued only by a request whose commit succeeded and
\* that answers ok; a push that runs, whatever its outcome, leaves the tables
\* and the response as they are and is gone from the queue: it is not run
\* again.
C9_MirrorIsolated ==
    [][/\ Len(tasks') > Len(tasks) =>
            /\ tasks' = Append(tasks, tasks'[Len(tasks')])
            /\ response'.body.status = "ok"
            /\ Persisted(tasks'[Len(tasks')], response', acTable', actTable', telemetry')
       /\ (Len(tasks') < Len(tasks) \/ lastPush' # lastPush) =>
            /\ Len(tasks') = Len(tasks) - 1
            /\ store' = store
            /\ response' = response
       /\ Len(tasks') = Len(tasks) => tasks' = tasks
      ]_vars

\* a telemetry ingest answered ok whose push failed: the row is stored, the
\* queue is empty
C9_Witness ==
    /\ response.op = "save_telemetry"
    /\ response.body.status = "ok"
    /\ lastPush = "error"
    /\ tasks = <<>>
    /\ telemetry # <<>>

\* C2 (SpecConc): with concurrent upserts every reachable state has at most
\* one row in each singleton table.
C2_ConcurrentSingleton ==
    Len(acTable) <= 1 /\ Len(actTable) <= 1

\* the procedure's effect on a row when run alone
Alone(r, row) ==
    ApplyUpdate(r.op, row, r.data, IF OnAc(r.op) THEN UtcNow ELSE LocalNow)

\* C10 (SpecConc): a commit writes the columns its request changed over the
\* row as it then is, with no check that the row is still the one the
\* request loaded, and the request answers ok.
C10_BlindOverwrite ==
    [][\A p \in 1..NumRequests :
          /\ (reqs[p].pc = "looked" /\ reqs'[p].pc = "committed"
                /\ reqs[p].loaded # <<>>) =>
                LET r == reqs[p]
                    before == IF OnAc(r.op) THEN acTable ELSE actTable
                    after == IF OnAc(r.op) THEN acTable' ELSE actTable'
                IN  /\ Len(after) = Len(before)
                    /\ \A i \in 1..Len(after) :
                          IF before[i].id = r.obj.id
                          THEN \A f \in DOMAIN r.obj :
                                  after[i][f] = IF r.obj[f] # r.loaded[1][f]
                                                THEN r.obj[f] ELSE before[i][f]
                          ELSE after[i] = before[i]
          /\ reqs'[p].pc = "done" => reqs'[p].resp.status = "ok"
      ]_vars

\* two requests on the row of one singleton table, each having loaded it
\* before the other committed, both answered ok, and the row left is the
\* result of neither order of the two run one after the other
LostUpdate(p, q) ==
    /\ p # q
    /\ reqs[p].pc = "done" /\ reqs[q].pc = "done"
    /\ OnAc(reqs[p].op) = OnAc(reqs[q].op)
    /\ reqs[p].loaded # <<>> /\ reqs[q].loaded = reqs[p].loaded
    /\ \A o \in 1..NumRequests \ {p, q} : reqs[o].pc = "idle"
    /\ reqs[p].resp.status = "ok" /\ reqs[q].resp.status = "ok"
    /\ LET table == IF OnAc(reqs[p].op) THEN acTable ELSE actTable
           base == reqs[p].loaded[1]
       IN  /\ Len(table) = 1
           /\ table[1] # Alone(reqs[q], Alone(reqs[p], base))
           /\ table[1] # Alone(reqs[p], Alone(reqs[q], base))

C10_Witness ==
    \E p, q \in 1..NumRequests : LostUpdate(p, q) /\ reqs[p].op = "manual"

\* the stamp a singleton table carries: none when it has no row
Stamps(table) == {table[i].last_updated : i \in 1..Len(table)}

\* the push a step has queued: <<>> when it queued none
Queued(before, after) ==
    IF Len(after) > Len(before) THEN <<after[Len(after)]>> ELSE <<>>

OnAcSettings(task) ==
    task.fn = "push_command"
        /\ task.command_type \in {"manual_update", "automation_update"}

OnActuator(task) ==
    task.fn = "push_command" /\ task.command_type = "actuator_update"

\* C11 (Spec): every successful set_manual_control, set_automation and
\* set_actuator_state (the steps that queue a command push), inserting or
\* updating, leaves the row's last_updated at the time of the call (UTC for
\* ACSettings, local for ActuatorState), never below the stamp the row had;
\* no other step, a read least of all, changes a stamp.
C11_StampOnMutation ==
    [][LET q == Queued(tasks, tasks') IN
       /\ (q # <<>> /\ OnAcSettings(q[1])) =>
             /\ Stamps(acTable') = {UtcNow}
             /\ \A old \in Stamps(acTable) : old <= acTable'[1].last_updated
       /\ (q # <<>> /\ OnActuator(q[1])) =>
             /\ Stamps(actTable') = {LocalNow}
             /\ \A old \in Stamps(actTable) : old <= actTable'[1].last_updated
       /\ Stamps(acTable') # Stamps(acTable) => (q # <<>> /\ OnAcSettings(q[1]))
       /\ Stamps(actTable') # Stamps(actTable) => (q # <<>> /\ OnActuator(q[1]))
       /\ response'.op \in {"get_ac_settings", "get_actuator_state"} =>
             /\ Stamps(acTable') = Stamps(acTable)
             /\ Stamps(actTable') = Stamps(actTable)
      ]_vars

\* the clock has advanced; an automation update made since then has
\* restamped the settings row, and a read has been answered after it
C11_Witness ==
    /\ now = 1
    /\ response.op = "get_ac_settings"
    /\ acTable # <<>> /\ actTable # <<>>
    /\ acTable[1].last_updated = 1
    /\ acTable[1].target_temp = 240 /\ acTable[1].threshold_temp = 260
    /\ actTable[1].last_updated = TzOffset

\* C12 (SpecActuator): the stored ActuatorState row has mode_request in
\* {auto, manual, ai}, ac in {0, 1} and fan in {0, 1}.
C12_ActuatorDomain ==
    \A r \in Rows(actTable) :
        /\ r.mode_request \in {"auto", "manual", "ai"}
        /\ r.ac \in {0, 1}
        /\ r.fan \in {0, 1}
====
